---- MODULE Spec2Model ----
(***************************************************************************)
(* Case lifecycle engine of the vetting application (src/app/main.py):     *)
(* sessions and memberships, the case table, the case_events table and     *)
(* the request handlers that read and write them.                          *)
(***************************************************************************)
EXTENDS Integers, Sequences, FiniteSets, TLC

\* ------------------------------------------------------------------ bounds
MaxCases    == 2    \* rows of the cases table
MaxRequests == 3    \* requests served after the logins of one behaviour
MaxHours    == 50   \* hours the wall clock runs for
MaxAhead    == 2    \* hours the clock that stamps created_at may run ahead
SeedSlaHours == 24  \* institutions.sla_hours of the seeded institution rows
MaxEvents   == 3    \* rows of case_events of the case whose timeline is read
MaxSuffix   == 4    \* highest suffix of a case id issued on the day
MaxBatch    == 2    \* studies of one submit
MaxRows     == 2    \* rows of a table of the legacy database
MaxLogins   == 4    \* logins of the one user whose sessions are followed
MaxTokens   == 2    \* reset tokens issued to the one user
MaxStamp    == 2    \* distinct created_at values the event clock can give

\* ------------------------------------------------------- static universe
NULL == "NULL"                      \* SQL NULL / Python None
Orgs == {1, 2}                      \* organisations.id
NoOrg == 0                          \* a NULL / falsy org_id
SUPERADMIN == 1                     \* users.id of the row named "superadmin"
UserIds == {1, 2, 3, 4}               \* users.id of the rows of the users table
CaseIds == 1 .. MaxCases
Procs == {1, 2}                     \* concurrently served requests

DECISIONS == {"Approve", "Reject", "Approve with comment"}
OrgRoles == {"org_admin", "radiologist", "org_user"}

\* institutions table: one referring site per organisation (id = org id)
InstitutionOrg(i) == i
Institutions == Orgs

\* users.username and radiologist_profiles.display_name of a user
Username(u) == <<"username", u>>
DisplayName(u) == <<"display", u>>
FirstName(u) == u \div 2
NullName == <<NULL, 0>>             \* a NULL name column
EmptyName == <<"", 0>>              \* the empty string stored in a name column

VARIABLES
    users,          \* users table: [UserIds -> row]
    memberships,    \* memberships table: the one row a user can own
    session,        \* the session cookie of each user
    cases,          \* cases table
    case_events,    \* case_events table, per case in insertion order
    intake_token,   \* orgs with a config row intake_token:<org>
    inflight,       \* requests being served step by step
    resp,           \* what the last handler answered
    nreq,           \* requests served so far
    clock,          \* the wall clock and the time columns of one case row
    timeline,       \* the timestamped event rows of one case and the last timeline read
    organisations,  \* organisations table: [Orgs -> row]
    case_ids,       \* the ids stored in the cases table on one day, in insertion order
    submits,        \* submit requests between generate_case_ids and their INSERTs
    listing,        \* the rows and counts the last dashboard showed
    attach,         \* one case, its referral file in the storage backend, the last read
    db,             \* the connections held by the request of each slot
    mig,            \* the migration script: its phase, the tables it scopes, its report
    sess,           \* the session cookies of one user and the row of user_sessions
    resets          \* the password reset tokens of one user and the submissions served

\* the variables of the request handlers modelled on the whole database
mainvars == <<users, memberships, session, cases, case_events, intake_token, inflight, resp, nreq,
             clock, timeline, organisations>>

\* the variables of the parts modelled on their own: the case id generator,
\* the dashboards, the attachment store, the database connections, the
\* migration script, the sessions of one user, the password resets
idvars == <<case_ids, submits>>
sidevars == <<idvars, listing, attach, db, mig, sess, resets>>

vars == <<mainvars, sidevars>>

NoMembership == [org_id |-> NoOrg, org_role |-> NULL, is_active |-> FALSE]
NoSession == [active |-> FALSE, role |-> NULL, org_id |-> NoOrg, org_role |-> NULL,
              is_superuser |-> FALSE, radiologist_name |-> NullName]
NoCase == [exists |-> FALSE, org_id |-> NoOrg, status |-> NULL, decision |-> NULL,
           protocol |-> NULL, vetted_at |-> NULL, radiologist |-> NullName,
           stored_filepath |-> FALSE, institution_id |-> 0]
NoForm == [decision |-> NULL, protocol |-> "", comment |-> FALSE]
Idle == [pc |-> "idle", user |-> 0, case |-> 0, form |-> NoForm, org_id |-> NoOrg,
         rad |-> NullName, old |-> NoCase]
NoResp == [op |-> NULL, user |-> 0, case |-> 0, code |-> NULL, orgs |-> {}]

\* timestamps are whole seconds; NoTime is a NULL or unparsable timestamp
\* column (parse_iso_dt returns None)
NoTime == -1
SECONDS_PER_HOUR == 3600
DEFAULT_SLA_HOURS == 48
Times == {h * SECONDS_PER_HOUR : h \in 0 .. MaxHours + MaxAhead}

\* the dashboard row last rendered for the case: d["tat_seconds"], d["sla_breached"]
NoView == [shown |-> FALSE, secs |-> 0, sla_breached |-> FALSE]
NoClock == [now |-> 0, exists |-> FALSE, created_at |-> NoTime, vetted_at |-> NoTime,
            status |-> NULL, institution_id |-> 0, view |-> NoView]

\* case_events rows of one case in insertion order (id, created_at) and the
\* rows the last timeline query returned
NoTimeline == [rows |-> <<>>, events |-> <<>>]

\* a response: the handler, the requesting user, the case addressed, the outcome
\* ("ok", "login" for a redirect to the login page, or the HTTP error status) and
\* the organisations whose case data the response body carries
Resp(op, u, c, code, orgs) == [op |-> op, user |-> u, case |-> c, code |-> code, orgs |-> orgs]

\* one more request is accepted for serving
Request == nreq < MaxRequests /\ nreq' = nreq + 1

\* ------------------------------------------------------- session / roles
\* get_user_primary_membership: the first active membership row of the user
get_user_primary_membership(u) ==
    IF memberships[u].is_active THEN memberships[u] ELSE NoMembership

\* role that verify_user derives from the active membership
LoginRole(u) ==
    LET m == get_user_primary_membership(u) IN
    IF u = SUPERADMIN THEN "admin"
    ELSE IF m.is_active /\ m.org_role = "org_admin" THEN "admin"
    ELSE IF m.is_active /\ m.org_role = "radiologist" THEN "radiologist"
    ELSE "user"

\* the session dict login_submit stores
LoginSession(u) ==
    LET m == get_user_primary_membership(u) IN
    [active |-> TRUE, role |-> LoginRole(u),
     org_id |-> IF u # SUPERADMIN /\ m.is_active THEN m.org_id ELSE NoOrg,
     org_role |-> IF u # SUPERADMIN /\ m.is_active THEN m.org_role ELSE NULL,
     is_superuser |-> (u = SUPERADMIN),
     radiologist_name |-> NullName]

\* get_current_org_context: the org_role it returns
ContextOrgRole(u) ==
    LET s == session[u]
        m == get_user_primary_membership(u)
        fromSession == IF s.org_role # NULL THEN s.org_role ELSE s.role
    IN IF m.is_active /\ m.org_role # NULL THEN m.org_role ELSE fromSession

\* get_current_org_context: the session dict it leaves behind
ContextSession(u) ==
    LET s == session[u]
        m == get_user_primary_membership(u)
        org_id == IF m.is_active /\ m.org_id # NoOrg THEN m.org_id ELSE s.org_id
        org_role == ContextOrgRole(u)
    IN IF ~m.is_active THEN s
       ELSE [s EXCEPT !.org_id = IF s.org_id = NoOrg THEN org_id ELSE @,
                      !.org_role = IF s.org_role = NULL /\ org_role # NULL THEN org_role ELSE @]

\* require_admin: "ok" when the request passes, else the HTTP status raised
require_admin(u) ==
    IF ~session[u].active THEN "401"
    ELSE IF session[u].is_superuser THEN "ok"
    ELSE IF ContextOrgRole(u) \in {"org_admin", "radiology_admin"} THEN "ok"
    ELSE IF session[u].role # "admin" THEN "403"
    ELSE "ok"

\* require_radiologist: "ok" when the request passes, else the HTTP status raised
require_radiologist(u) ==
    IF ~session[u].active THEN "401"
    ELSE IF session[u].is_superuser THEN "403"
    ELSE IF ContextOrgRole(u) # "radiologist" THEN "403"
    ELSE "ok"

\* rows of the legacy radiologists table: one per user created as radiologist
radiologists == {v \in UserIds : users[v].exists /\ users[v].profile}

\* names require_radiologist can put into the session of user u
RadiologistNames(u) ==
    LET s == ContextSession(u) IN
    IF s.radiologist_name # NullName THEN {s.radiologist_name}
    ELSE IF users[u].profile THEN {DisplayName(u)}
    ELSE LET hits == {v \in radiologists : v = u \/ FirstName(v) = FirstName(u)}
         IN IF hits = {} THEN {NullName} ELSE {DisplayName(v) : v \in hits}

\* list_radiologists(org_id): the names offered for assignment
list_radiologists(org_id) ==
    IF org_id # NoOrg
    THEN {IF users[v].profile THEN DisplayName(v) ELSE Username(v) :
            v \in {w \in UserIds : /\ memberships[w].org_id = org_id
                                   /\ memberships[w].is_active
                                   /\ memberships[w].org_role = "radiologist"}}
    ELSE {DisplayName(v) : v \in radiologists}

\* the session after require_login + get_current_org_context ran for user u
SessionAfterContext(u) ==
    IF session[u].active THEN [session EXCEPT ![u] = ContextSession(u)] ELSE session

\* ------------------------------------------------------------ case rows
\* the lowest unused row of the cases table (generate_case_ids: max suffix + 1)
NextCaseId == 1 + Cardinality({c \in CaseIds : cases[c].exists})

\* SELECT ... FROM cases WHERE id = ? [AND org_id = ?]
SelectCase(c, org_id) ==
    IF c \in CaseIds /\ cases[c].exists /\ (org_id = NoOrg \/ cases[c].org_id = org_id)
    THEN cases[c] ELSE NoCase

\* the org filter admin handlers apply: "if org_id and not is_superuser"
AdminScope(s) == IF s.org_id # NoOrg /\ ~s.is_superuser THEN s.org_id ELSE NoOrg

\* get_institution(inst_id, org_id)
get_institution(i, org_id) ==
    i \in Institutions /\ (org_id = NoOrg \/ InstitutionOrg(i) = org_id)

\* a row of case_events
Event(type, org_id, u, decision) ==
    [event_type |-> type, org_id |-> org_id, user_id |-> u, decision |-> decision]

\* a log that keeps only its newest row
insert_case_event_Overwrites(evs, c, e) == [evs EXCEPT ![c] = <<e>>]

\* insert_case_event: append a row for case c
insert_case_event(evs, c, e) == [evs EXCEPT ![c] = Append(@, e)]

\* ------------------------------------------------------------------ vet
\* the forms a reviewer can post: decision, protocol given, comment given
\* (the fields vet_submit reads: the protocol of a Reject is discarded, the
\* comment of an approval is not looked at)
VetForms ==
    { f \in [decision : DECISIONS, protocol : {"", "P"}, comment : BOOLEAN] :
        IF f.decision = "Reject" THEN f.protocol = "" ELSE ~f.comment }

\* vet_submit up to and including its SELECT: the status raised, or "ok"
VetCheck(u, c, f, name) ==
    LET s == ContextSession(u)
        row == SelectCase(c, s.org_id)
    IN IF require_radiologist(u) # "ok" THEN require_radiologist(u)
       ELSE IF f.decision \notin DECISIONS THEN "400"
       ELSE IF f.decision = "Reject" /\ ~f.comment THEN "400"
       ELSE IF f.decision # "Reject" /\ f.protocol = "" THEN "400"
       ELSE IF ~row.exists THEN "404"
       ELSE IF row.radiologist # name THEN "403"
       ELSE "ok"

\* vet_submit: the protocol it stores
VetProtocol(f) == IF f.decision = "Reject" THEN "" ELSE f.protocol

\* a vet whose UPDATE leaves the stored protocol alone on a Reject
VetUpdate_KeepsProtocol(row, f) ==
    IF ~row.exists THEN row
    ELSE [row EXCEPT !.status = IF f.decision = "Reject" THEN "rejected" ELSE "vetted",
                     !.protocol = IF f.decision = "Reject" THEN @ ELSE f.protocol,
                     !.decision = f.decision,
                     !.vetted_at = "now"]

\* vet_submit: the UPDATE cases ... WHERE id = ?
VetUpdate(row, f) ==
    IF ~row.exists THEN row
    ELSE [row EXCEPT !.status = IF f.decision = "Reject" THEN "rejected" ELSE "vetted",
                     !.protocol = VetProtocol(f),
                     !.decision = f.decision,
                     !.vetted_at = "now"]

\* a VETTED row that carries no organisation
VetEvent_NoOrg(org_id, u, f) == Event("VETTED", NoOrg, u, f.decision)

\* vet_submit: the VETTED row it hands to insert_case_event
VetEvent(org_id, u, f) == Event("VETTED", org_id, u, f.decision)

\* POST /vet/{case_id}, served without interleaving
vet_submit(u, c, f) ==
    /\ users[u].exists
    /\ Request
    /\ \E name \in (IF require_radiologist(u) = "ok" THEN RadiologistNames(u) ELSE {NullName}) :
        LET s == [ContextSession(u) EXCEPT !.radiologist_name =
                    IF require_radiologist(u) = "ok" THEN name ELSE @]
            code == VetCheck(u, c, f, name)
        IN /\ session' = IF session[u].active THEN [session EXCEPT ![u] = s] ELSE session
           /\ IF code = "ok"
              THEN /\ cases' = [cases EXCEPT ![c] = VetUpdate(@, f)]
                   /\ case_events' = insert_case_event(case_events, c, VetEvent(s.org_id, u, f))
              ELSE UNCHANGED <<cases, case_events>>
           /\ resp' = Resp("vet", u, c, code, {})
    /\ UNCHANGED <<sidevars, organisations, timeline, clock, users, memberships, intake_token, inflight>>

\* POST /vet/{case_id} served step by step for request slot p.
\* First step: require_radiologist, the form checks and the SELECT
VetBegin(p, u, c, f) ==
    /\ inflight[p].pc = "idle"
    /\ users[u].exists
    /\ Request
    /\ \E name \in (IF require_radiologist(u) = "ok" THEN RadiologistNames(u) ELSE {NullName}) :
        LET s == [ContextSession(u) EXCEPT !.radiologist_name =
                    IF require_radiologist(u) = "ok" THEN name ELSE @]
            code == VetCheck(u, c, f, name)
        IN /\ session' = IF session[u].active THEN [session EXCEPT ![u] = s] ELSE session
           /\ IF code = "ok"
              THEN /\ inflight' = [inflight EXCEPT ![p] =
                        [Idle EXCEPT !.pc = "update", !.user = u, !.case = c, !.form = f,
                                     !.org_id = s.org_id]]
                   /\ UNCHANGED resp
              ELSE /\ resp' = Resp("vet", u, c, code, {})
                   /\ UNCHANGED inflight
    /\ UNCHANGED <<sidevars, organisations, timeline, clock, users, memberships, cases, case_events, intake_token>>

\* Second step: the UPDATE of the case row and its commit
VetWrite(p) ==
    /\ inflight[p].pc = "update"
    /\ cases' = [cases EXCEPT ![inflight[p].case] = VetUpdate(@, inflight[p].form)]
    /\ inflight' = [inflight EXCEPT ![p].pc = "event"]
    /\ UNCHANGED <<sidevars, organisations, timeline, clock, users, memberships, session, case_events, intake_token, resp, nreq>>

\* Third step: insert_case_event in its own connection, then the redirect
VetLog(p) ==
    /\ inflight[p].pc = "event"
    /\ case_events' = insert_case_event(case_events, inflight[p].case,
                          VetEvent(inflight[p].org_id, inflight[p].user, inflight[p].form))
    /\ resp' = Resp("vet", inflight[p].user, inflight[p].case, "ok", {})
    /\ inflight' = [inflight EXCEPT ![p] = Idle]
    /\ UNCHANGED <<sidevars, organisations, timeline, clock, users, memberships, session, cases, intake_token, nreq>>

\* the worker serving slot p dies between two steps of vet_submit; what it
\* committed stays committed
Crash(p) ==
    /\ inflight[p].pc \in {"update", "event"}
    /\ resp' = Resp("vet", inflight[p].user, inflight[p].case, "500", {})
    /\ inflight' = [inflight EXCEPT ![p] = Idle]
    /\ UNCHANGED <<sidevars, organisations, timeline, clock, users, memberships, session, cases, case_events, intake_token, nreq>>

\* POST /login with the right password
login_submit(u) ==
    /\ users[u].exists
    /\ session' = [session EXCEPT ![u] = LoginSession(u)]
    /\ resp' = Resp("login", u, 0, "ok", {})
    /\ UNCHANGED <<sidevars, organisations, timeline, clock, users, memberships, cases, case_events, intake_token, inflight, nreq>>

\* ------------------------------------------------------- admin handlers
\* submit_case: the org_id the new row gets (a superuser's comes from the
\* org_id_form field, because get_institution selects no org_id column)
SubmitOrg(s, form_org) == IF s.is_superuser /\ form_org # NoOrg THEN form_org ELSE s.org_id

\* submit_case up to its INSERT: the status raised, or "ok"
SubmitCheck(u, i, form_org, rad, attachment) ==
    LET s == ContextSession(u)
    IN IF require_admin(u) # "ok" THEN require_admin(u)
       ELSE IF ~s.is_superuser /\ s.org_id = NoOrg THEN "403"
       ELSE IF ~get_institution(i, s.org_id) THEN "400"
       ELSE IF rad # EmptyName /\ rad \notin list_radiologists(SubmitOrg(s, form_org)) THEN "400"
       ELSE IF ~attachment THEN "400"
       ELSE "ok"

\* the row submit_case and intake_submit insert
NewCase(org_id, rad, i) ==
    [exists |-> TRUE, org_id |-> org_id, status |-> "pending", decision |-> NULL,
     protocol |-> NULL, vetted_at |-> NULL, radiologist |-> rad, stored_filepath |-> TRUE,
     institution_id |-> i]

\* POST /submit (one study, no extra studies)
submit_case(u, i, form_org, rad, attachment) ==
    /\ users[u].exists
    /\ Request
    /\ LET s == ContextSession(u)
           code == SubmitCheck(u, i, form_org, rad, attachment)
       IN /\ session' = SessionAfterContext(u)
          /\ IF code = "ok"
             THEN /\ NextCaseId \in CaseIds
                  /\ cases' = [cases EXCEPT ![NextCaseId] = NewCase(SubmitOrg(s, form_org), rad, i)]
                  /\ resp' = Resp("submit", u, NextCaseId, "ok", {})
             ELSE /\ UNCHANGED cases
                  /\ resp' = Resp("submit", u, 0, code, {})
    /\ UNCHANGED <<sidevars, organisations, timeline, clock, users, memberships, case_events, intake_token, inflight>>

\* POST /intake/{org_id}?token=...
intake_submit(org_id, tokenOk, i, attachment) ==
    LET code == IF org_id \notin intake_token \/ ~tokenOk THEN "403"
                ELSE IF ~get_institution(i, org_id) THEN "400"
                ELSE IF ~attachment THEN "400"
                ELSE "ok"
    IN /\ Request
       /\ IF code = "ok"
          THEN /\ NextCaseId \in CaseIds
               /\ cases' = [cases EXCEPT ![NextCaseId] = NewCase(org_id, EmptyName, i)]
               /\ case_events' = insert_case_event(case_events, NextCaseId,
                                                   Event("SUBMITTED", org_id, 0, NULL))
               /\ resp' = Resp("intake", 0, NextCaseId, "ok", {})
          ELSE /\ UNCHANGED <<cases, case_events>>
               /\ resp' = Resp("intake", 0, 0, code, {})
       /\ UNCHANGED <<sidevars, organisations, timeline, clock, users, memberships, session, intake_token, inflight>>

\* assign_radiologist up to its UPDATE: the status raised, or "ok"
AssignCheck(u, c, rad) ==
    LET s == ContextSession(u)
        row == SelectCase(c, AdminScope(s))
    IN IF require_admin(u) # "ok" THEN require_admin(u)
       ELSE IF ~row.exists THEN "404"
       ELSE IF rad # EmptyName /\ rad \notin list_radiologists(s.org_id) THEN "400"
       ELSE "ok"

\* assign_radiologist: UPDATE cases SET radiologist = ? WHERE id = ?
AssignUpdate(row, rad) ==
    IF ~row.exists THEN row
    ELSE [row EXCEPT !.radiologist = IF rad = EmptyName THEN NullName ELSE rad]

\* POST /admin/case/{case_id}/assign-radiologist
assign_radiologist(u, c, rad) ==
    /\ users[u].exists
    /\ Request
    /\ LET code == AssignCheck(u, c, rad)
       IN /\ session' = SessionAfterContext(u)
          /\ IF code = "ok"
             THEN /\ cases' = [cases EXCEPT ![c] = AssignUpdate(@, rad)]
                  /\ case_events' = insert_case_event(case_events, c,
                                        Event("ASSIGNED", cases[c].org_id, u, NULL))
             ELSE UNCHANGED <<cases, case_events>>
          /\ resp' = Resp("assign", u, c, code, {})
    /\ UNCHANGED <<sidevars, organisations, timeline, clock, users, memberships, intake_token, inflight>>

\* a reopen that skips the "Org isolation" test
ReopenCheck_Unscoped(u, c) ==
    LET row == SelectCase(c, NoOrg)
    IN IF require_admin(u) # "ok" THEN "login"
       ELSE IF ~row.exists THEN "404"
       ELSE "ok"

\* admin_reopen_case_submit up to its UPDATE
ReopenCheck(u, c) ==
    LET s == ContextSession(u)
        row == SelectCase(c, NoOrg)
    IN IF require_admin(u) # "ok" THEN "login"
       ELSE IF ~row.exists THEN "404"
       ELSE IF s.org_id # NoOrg /\ row.org_id # s.org_id THEN "403"
       ELSE "ok"

\* a reopen whose UPDATE forgets vetted_at = NULL
ReopenUpdate_KeepsVettedAt(row) ==
    IF ~row.exists THEN row
    ELSE [row EXCEPT !.status = "reopened", !.decision = NULL]

\* admin_reopen_case_submit: the UPDATE it runs
ReopenUpdate(row) ==
    IF ~row.exists THEN row
    ELSE [row EXCEPT !.status = "reopened", !.decision = NULL, !.vetted_at = NULL]

\* POST /admin/case/{case_id}/reopen
admin_reopen_case_submit(u, c) ==
    /\ users[u].exists
    /\ Request
    /\ LET code == ReopenCheck(u, c)
       IN /\ session' = SessionAfterContext(u)
          /\ cases' = IF code = "ok" THEN [cases EXCEPT ![c] = ReopenUpdate(@)] ELSE cases
          /\ resp' = Resp("reopen", u, c, code, {})
    /\ UNCHANGED <<sidevars, organisations, timeline, clock, users, memberships, case_events, intake_token, inflight>>

\* isLocked: the "Cannot edit approved cases" test of the edit handlers
isLocked(row) == row.status = "vetted" /\ row.decision = "Approve"

\* an edit check without the "Cannot edit approved cases" test
EditCheck_NoLock(u, c) ==
    LET s == ContextSession(u)
        row == SelectCase(c, AdminScope(s))
    IN IF require_admin(u) # "ok" THEN "403"
       ELSE IF ~row.exists THEN "404"
       ELSE "ok"

\* admin_case_edit_save up to its UPDATE
EditCheck(u, c) ==
    LET s == ContextSession(u)
        row == SelectCase(c, AdminScope(s))
    IN IF require_admin(u) # "ok" THEN "403"
       ELSE IF ~row.exists THEN "404"
       ELSE IF isLocked(row) THEN "403"
       ELSE "ok"

\* an edit that also rewrites the organisation of the row
EditUpdate_MovesOrg(row, old, rad, protocol) ==
    IF ~row.exists THEN row
    ELSE [row EXCEPT !.radiologist = IF rad # EmptyName THEN rad
                                     ELSE IF old.radiologist = NullName THEN EmptyName
                                     ELSE old.radiologist,
                     !.protocol = IF protocol = "" THEN NULL ELSE protocol,
                     !.org_id = 1]

\* admin_case_edit_save: the UPDATE built from the form (radiologist, protocol)
EditUpdate(row, old, rad, protocol) ==
    IF ~row.exists THEN row
    ELSE [row EXCEPT !.radiologist = IF rad # EmptyName THEN rad
                                     ELSE IF old.radiologist = NullName THEN EmptyName
                                     ELSE old.radiologist,
                     !.protocol = IF protocol = "" THEN NULL ELSE protocol]

\* admin_case_edit_save: the institution_id its UPDATE writes, the number in
\* the form field as it is (0 stands for the NULL of a field that is no number)
EditInstitution(row, i) == IF ~row.exists THEN row ELSE [row EXCEPT !.institution_id = i]

\* POST /admin/case/{case_id}/edit
admin_case_edit_save(u, c, i, rad, protocol) ==
    /\ users[u].exists
    /\ Request
    /\ LET s == ContextSession(u)
           code == EditCheck(u, c)
           event_org_id == IF s.org_id # NoOrg THEN s.org_id ELSE cases[c].org_id
       IN /\ session' = SessionAfterContext(u)
          /\ IF code = "ok"
             THEN /\ cases' = [cases EXCEPT ![c] =
                                EditInstitution(EditUpdate(@, cases[c], rad, protocol), i)]
                  /\ case_events' = insert_case_event(case_events, c,
                                        Event("EDITED", event_org_id, u, NULL))
             ELSE UNCHANGED <<cases, case_events>>
          /\ resp' = Resp("edit", u, c, code, {})
    /\ UNCHANGED <<sidevars, organisations, timeline, clock, users, memberships, intake_token, inflight>>

\* admin_case_edit_save served step by step for request slot p.
\* First step: require_admin, the scoped SELECT * and the lock test; the row
\* read is kept for the fields the form leaves blank
EditBegin(p, u, c, rad, protocol) ==
    /\ inflight[p].pc = "idle"
    /\ users[u].exists
    /\ Request
    /\ LET s == ContextSession(u)
           code == EditCheck(u, c)
           event_org_id == IF s.org_id # NoOrg THEN s.org_id ELSE cases[c].org_id
       IN /\ session' = SessionAfterContext(u)
          /\ IF code = "ok"
             THEN /\ inflight' = [inflight EXCEPT ![p] =
                        [Idle EXCEPT !.pc = "edit_update", !.user = u, !.case = c,
                                     !.form = [NoForm EXCEPT !.protocol = protocol],
                                     !.org_id = event_org_id, !.rad = rad,
                                     !.old = SelectCase(c, AdminScope(s))]]
                  /\ UNCHANGED resp
             ELSE /\ resp' = Resp("edit", u, c, code, {})
                  /\ UNCHANGED inflight
    /\ UNCHANGED <<sidevars, organisations, timeline, clock, users, memberships, cases, case_events, intake_token>>

\* Second step: UPDATE cases SET ... WHERE id = ? and its commit
EditWrite(p) ==
    /\ inflight[p].pc = "edit_update"
    /\ cases' = [cases EXCEPT ![inflight[p].case] =
                    EditInstitution(EditUpdate(@, inflight[p].old, inflight[p].rad,
                                               inflight[p].form.protocol),
                                    inflight[p].old.institution_id)]
    /\ inflight' = [inflight EXCEPT ![p].pc = "edit_event"]
    /\ UNCHANGED <<sidevars, organisations, timeline, clock, users, memberships, session, case_events, intake_token, resp, nreq>>

\* Third step: the EDITED event, then the redirect
EditLog(p) ==
    /\ inflight[p].pc = "edit_event"
    /\ case_events' = insert_case_event(case_events, inflight[p].case,
                          Event("EDITED", inflight[p].org_id, inflight[p].user, NULL))
    /\ resp' = Resp("edit", inflight[p].user, inflight[p].case, "ok", {})
    /\ inflight' = [inflight EXCEPT ![p] = Idle]
    /\ UNCHANGED <<sidevars, organisations, timeline, clock, users, memberships, session, cases, intake_token, nreq>>

\* ---------------------------------------------------------------- reads
\* GET /admin/case/{case_id} (and its timeline): the case row and its events
admin_case_view(u, c) ==
    /\ users[u].exists
    /\ Request
    /\ LET s == ContextSession(u)
           row == SelectCase(c, AdminScope(s))
           code == IF require_admin(u) # "ok" THEN "login"
                   ELSE IF ~row.exists THEN "404" ELSE "ok"
       IN /\ session' = SessionAfterContext(u)
          /\ resp' = Resp("view", u, c, code, IF code = "ok" THEN {row.org_id} ELSE {})
    /\ UNCHANGED <<sidevars, organisations, timeline, clock, users, memberships, cases, case_events, intake_token, inflight>>

\* GET /case/{case_id}/attachment
download_attachment(u, c) ==
    /\ users[u].exists
    /\ Request
    /\ LET s == session[u]
           row == SelectCase(c, NoOrg)
           code == IF ~s.active THEN "401"
                   ELSE IF s.role = "radiologist" THEN "403"
                   ELSE IF ~row.exists THEN "404"
                   ELSE IF ~row.stored_filepath THEN "410"
                   ELSE IF /\ s.org_id # NoOrg /\ ~s.is_superuser
                           /\ row.org_id # NoOrg /\ row.org_id # s.org_id THEN "403"
                   ELSE "ok"
       IN resp' = Resp("download", u, c, code, IF code = "ok" THEN {row.org_id} ELSE {})
    /\ UNCHANGED <<sidevars, organisations, timeline, clock, users, memberships, session, cases, case_events, intake_token, inflight>>

\* GET /admin.events.csv: the audit export
admin_events_csv(u) ==
    /\ users[u].exists
    /\ Request
    /\ LET s == ContextSession(u)
           scope == AdminScope(s)
           rows == {<<c, k>> \in CaseIds \X (1 .. MaxRequests) :
                      /\ k <= Len(case_events[c])
                      /\ (scope = NoOrg \/ case_events[c][k].org_id = scope)}
           code == require_admin(u)
       IN /\ session' = SessionAfterContext(u)
          /\ resp' = Resp("export", u, 0, code,
                          IF code = "ok" THEN {cases[r[1]].org_id : r \in rows} ELSE {})
    /\ UNCHANGED <<sidevars, organisations, timeline, clock, users, memberships, cases, case_events, intake_token, inflight>>

\* --------------------------------------------------- users, memberships
\* POST /mt/org/{org_id}/edit-user/{user_id}: change the member's org_role
mt_edit_user_submit(u, org_id, target, org_role) ==
    /\ users[u].exists
    /\ Request
    /\ LET code == IF require_admin(u) # "ok" THEN "login"
                   ELSE IF ~session[u].is_superuser THEN "403"
                   ELSE IF org_role \notin OrgRoles THEN "400" ELSE "ok"
       IN /\ session' = SessionAfterContext(u)
          /\ memberships' =
                IF code = "ok" /\ memberships[target].org_id = org_id
                THEN [memberships EXCEPT ![target].org_role = org_role]
                ELSE memberships
          /\ resp' = Resp("edit_user", u, 0, code, {})
    /\ UNCHANGED <<sidevars, organisations, timeline, clock, users, cases, case_events, intake_token, inflight>>

\* GET /mt/org/{org_id}/remove-user/{user_id}: deactivate the membership
mt_remove_user(u, org_id, target) ==
    /\ users[u].exists
    /\ Request
    /\ LET code == IF require_admin(u) # "ok" THEN "login"
                   ELSE IF ~session[u].is_superuser THEN "403" ELSE "ok"
       IN /\ session' = SessionAfterContext(u)
          /\ memberships' =
                IF code = "ok" /\ memberships[target].org_id = org_id
                THEN [memberships EXCEPT ![target].is_active = FALSE]
                ELSE memberships
          /\ resp' = Resp("remove_user", u, 0, code, {})
    /\ UNCHANGED <<sidevars, organisations, timeline, clock, users, cases, case_events, intake_token, inflight>>

\* ------------------------------------------------------- case identifiers
\* The ids of one day, by their numeric suffix. case_ids holds the rows of the
\* cases table in insertion order, each with the request that inserted it.
NoSubmit == [pc |-> "idle", ids |-> <<>>, k |-> 0, code |-> NULL]

\* generate_case_ids: the highest suffix among the rows read
max_seq(rows) ==
    IF rows = <<>> THEN 0
    ELSE CHOOSE m \in {rows[i].id : i \in 1 .. Len(rows)} :
            \A i \in 1 .. Len(rows) : rows[i].id <= m

\* generate_case_ids(count): count consecutive suffixes after the highest read
generate_case_ids(rows, count) == [idx \in 1 .. count |-> max_seq(rows) + idx]

\* an INSERT into a table without the primary key on cases.id
InsertCase_NoPrimaryKey(rows, id, p) == Append(rows, [id |-> id, by |-> p])

\* INSERT INTO cases (id, ...): refused (the rows stay as they are) when a row
\* with this id is there already, id being the PRIMARY KEY
InsertCase(rows, id, p) ==
    IF \E i \in 1 .. Len(rows) : rows[i].id = id THEN rows
    ELSE Append(rows, [id |-> id, by |-> p])

\* the variables the id generator leaves alone
idframe == <<mainvars, listing, attach, db, mig, sess, resets>>

\* submit_case / intake_submit up to generate_case_ids: the request reads the
\* ids of the day and keeps the suffixes for its count studies
SubmitGenerate(p, count) ==
    /\ submits[p].pc = "idle"
    /\ max_seq(case_ids) + count <= MaxSuffix
    /\ submits' = [submits EXCEPT ![p] = [pc |-> "insert", k |-> 1, code |-> NULL,
                                         ids |-> generate_case_ids(case_ids, count)]]
    /\ UNCHANGED <<case_ids, idframe>>

\* the next INSERT + commit of the request: the main case, then one per extra
\* study; an INSERT the database refuses ends the request with a 500, the
\* rows committed before staying
SubmitInsert(p) ==
    /\ submits[p].pc = "insert"
    /\ LET s == submits[p]
           rows == InsertCase(case_ids, s.ids[s.k], p)
       IN /\ case_ids' = rows
          /\ submits' = [submits EXCEPT ![p] =
                IF rows = case_ids THEN [s EXCEPT !.pc = "idle", !.code = "500"]
                ELSE IF s.k = Len(s.ids) THEN [s EXCEPT !.pc = "idle", !.code = "ok"]
                ELSE [s EXCEPT !.k = s.k + 1]]
    /\ UNCHANGED idframe

\* ------------------------------------------------------------ dashboards
\* what the last dashboard showed: its rows and the counts of its header
NoListing == [op |-> NULL, user |-> 0, tab |-> "all", code |-> NULL, rows |-> {},
              pending_count |-> 0, total_count |-> 0]
Tabs == {"all", "pending", "vetted", "rejected", "reopened"}

\* admin_dashboard: the WHERE clause its tab adds
AdminTabFilter(tab, row) ==
    IF tab \in {"pending", "vetted", "rejected"} THEN row.status = tab ELSE TRUE

\* radiologist_dashboard: the WHERE clause its tab adds
RadiologistTabFilter(tab, row) ==
    IF tab = "pending" THEN row.status \in {"pending", "reopened"}
    ELSE IF tab \in {"vetted", "rejected", "reopened"} THEN row.status = tab
    ELSE TRUE

\* admin_dashboard: the rows of the cases table the session's scope selects
AdminRows(s) ==
    {c \in CaseIds : /\ cases[c].exists
                     /\ (s.org_id # NoOrg /\ ~s.is_superuser => cases[c].org_id = s.org_id)}

\* admin_dashboard: COUNT(*) ... GROUP BY status, read for one status
StatusCount(s, status) == Cardinality({c \in AdminRows(s) : cases[c].status = status})

\* GET /admin?tab=...
admin_dashboard(u, tab) ==
    /\ users[u].exists
    /\ LET s == ContextSession(u)
           code == IF require_admin(u) # "ok" THEN "login" ELSE "ok"
           empty == ~s.is_superuser /\ s.org_id = NoOrg
           pending_count == StatusCount(s, "pending")
           shown == IF tab \in {"all", "pending", "vetted", "rejected"} THEN tab ELSE "all"
       IN /\ session' = SessionAfterContext(u)
          /\ listing' =
                IF code # "ok" THEN [NoListing EXCEPT !.op = "admin", !.user = u, !.code = code]
                ELSE IF empty THEN [NoListing EXCEPT !.op = "admin", !.user = u, !.code = "ok",
                                                      !.tab = tab]
                ELSE [op |-> "admin", user |-> u, tab |-> shown, code |-> "ok",
                      rows |-> {c \in AdminRows(s) : AdminTabFilter(shown, cases[c])},
                      pending_count |-> pending_count,
                      total_count |-> pending_count + StatusCount(s, "vetted")
                                                    + StatusCount(s, "rejected")]
    /\ UNCHANGED <<idvars, attach, db, mig, sess, resets, organisations, timeline, clock, users, memberships, cases,
                   case_events, intake_token, inflight, resp, nreq>>

\* GET /radiologist?tab=...
radiologist_dashboard(u, tab) ==
    /\ users[u].exists
    /\ \E name \in (IF require_radiologist(u) = "ok" THEN RadiologistNames(u) ELSE {NullName}) :
        LET s == [ContextSession(u) EXCEPT !.radiologist_name =
                    IF require_radiologist(u) = "ok" THEN name ELSE @]
            code == IF require_radiologist(u) # "ok" THEN "login"
                    ELSE IF name \in {NullName, EmptyName} THEN "400" ELSE "ok"
        IN /\ session' = IF session[u].active THEN [session EXCEPT ![u] = s] ELSE session
           /\ listing' =
                 IF code # "ok" THEN [NoListing EXCEPT !.op = "radiologist", !.user = u, !.code = code]
                 ELSE [NoListing EXCEPT
                         !.op = "radiologist", !.user = u, !.tab = tab, !.code = "ok",
                         !.rows = {c \in CaseIds :
                                     /\ cases[c].exists
                                     /\ cases[c].radiologist = name
                                     /\ (s.org_id # NoOrg => cases[c].org_id = s.org_id)
                                     /\ RadiologistTabFilter(tab, cases[c])}]
    /\ UNCHANGED <<idvars, attach, db, mig, sess, resets, organisations, timeline, clock, users, memberships, cases,
                   case_events, intake_token, inflight, resp, nreq>>

\* ----------------------------------------------------------- attachments
\* One case and its referral file. stored_filepath is NULL, the absolute path
\* of a file under UPLOAD_DIR ("local") or the name of a blob ("blob").
NoOut == [op |-> NULL, code |-> NULL, metadata |-> FALSE, events |-> 0]
NoAttach == [started |-> FALSE, BLOB_STORAGE_ENABLED |-> FALSE, exists |-> FALSE, stored_filepath |-> NULL,
             file |-> FALSE, blob |-> FALSE, events |-> 0, out |-> NoOut]

\* Path(path).exists() / os.path.exists(path): a file of the local disk; a
\* blob name is no path of the local disk
PathExists(a) == a.stored_filepath = "local" /\ a.file

\* clear_case_stored_filepath: UPDATE cases SET stored_filepath = NULL
clear_case_stored_filepath(a) == [a EXCEPT !.stored_filepath = NULL]

\* normalize_case_attachment: the case row after the check of its path
normalize_case_attachment(a) ==
    IF a.stored_filepath # NULL /\ ~PathExists(a) THEN clear_case_stored_filepath(a) ELSE a

\* download_from_blob: the bytes were fetched; reachable says whether the call
\* to the storage account went through
download_from_blob(a, reachable) ==
    a.BLOB_STORAGE_ENABLED /\ a.stored_filepath # NULL /\ a.blob /\ reachable

\* the variables the attachment store leaves alone
attachframe == <<mainvars, idvars, listing, db, mig, sess, resets>>

\* startup: the deployment has a storage connection string or has none
AttachStartup(enabled) ==
    /\ ~attach.started
    /\ attach' = [attach EXCEPT !.started = TRUE, !.BLOB_STORAGE_ENABLED = enabled]
    /\ UNCHANGED attachframe

\* submit_case / intake_submit: the upload goes to blob storage, or to the
\* local disk when blob storage is off or the upload failed; intake_submit
\* writes the SUBMITTED event
AttachSubmit(uploaded, intake) ==
    /\ attach.started
    /\ ~attach.exists
    /\ LET toBlob == attach.BLOB_STORAGE_ENABLED /\ uploaded
       IN attach' = [attach EXCEPT !.exists = TRUE,
                                  !.stored_filepath = IF toBlob THEN "blob" ELSE "local",
                                  !.blob = toBlob, !.file = ~toBlob,
                                  !.events = IF intake THEN 1 ELSE 0]
    /\ UNCHANGED attachframe

\* an assignment, edit or vet of the case appends an event
AttachEvent ==
    /\ attach.exists
    /\ attach.events < MaxEvents
    /\ attach' = [attach EXCEPT !.events = @ + 1]
    /\ UNCHANGED attachframe

\* the referral leaves its storage backend (disk replaced, blob deleted)
AttachLost ==
    /\ attach.file \/ attach.blob
    /\ attach' = [attach EXCEPT !.file = FALSE, !.blob = FALSE]
    /\ UNCHANGED attachframe

\* admin_case_view, by a user whose scope holds the case
AttachView ==
    /\ attach.started
    /\ attach' =
          IF ~attach.exists THEN [attach EXCEPT !.out = [NoOut EXCEPT !.op = "view", !.code = "404"]]
          ELSE [normalize_case_attachment(attach) EXCEPT
                  !.out = [op |-> "view", code |-> "ok", metadata |-> TRUE,
                           events |-> attach.events]]
    /\ UNCHANGED attachframe

\* download_attachment, by an administrator whose scope holds the case
AttachDownload(reachable) ==
    /\ attach.started
    /\ LET code == IF ~attach.exists THEN "404"
                   ELSE IF attach.stored_filepath = NULL THEN "410"
                   ELSE IF /\ attach.stored_filepath = "blob"
                           /\ download_from_blob(attach, reachable) THEN "ok"
                   ELSE IF PathExists(attach) THEN "ok"
                   ELSE "410"
           row == IF attach.exists /\ attach.stored_filepath # NULL /\ code = "410"
                  THEN clear_case_stored_filepath(attach) ELSE attach
       IN attach' = [row EXCEPT !.out = [NoOut EXCEPT !.op = "download", !.code = code]]
    /\ UNCHANGED attachframe

\* ----------------------------------------------------------- connections
\* The connections a request holds while vet_submit, assign_radiologist or
\* admin_reopen_case_submit serves it: get_db() opens one, conn.close() gives
\* it back, an exception raised by the database leaves the handler at once.
DbOps == {"vet", "assign", "reopen"}
NoDb == [op |-> NULL, pc |-> "idle", held |-> 0, exit |-> NULL]

\* the refusals of the handler's guards after its SELECT
Refusals(op) == IF op = "assign" THEN {"404", "400"} ELSE {"404", "403"}

\* the handlers that call insert_case_event after their commit
WritesEvent(op) == op \in {"vet", "assign"}

\* get_db(): one more connection is held
get_db(r) == [r EXCEPT !.held = @ + 1]

\* conn.close(): one connection is given back
conn_close(r) == [r EXCEPT !.held = @ - 1]

\* the request leaves the handler with this status
Leave(r, exit) == [r EXCEPT !.pc = "done", !.exit = exit]

\* the variables the connections leave alone
dbframe == <<mainvars, idvars, listing, attach, mig, sess, resets>>

\* conn = get_db(), the SELECT and the guards: a refusal closes the connection
\* and raises; an error of the SELECT raises out of the handler
DbSelect(p, op, outcome) ==
    /\ db[p].pc \in {"idle", "done"}
    /\ outcome \in Refusals(op) \cup {"ok", "500"}
    /\ LET r == get_db([NoDb EXCEPT !.op = op])
       IN db' = [db EXCEPT ![p] =
                    IF outcome = "ok" THEN [r EXCEPT !.pc = "selected"]
                    ELSE IF outcome = "500" THEN Leave(r, "500")
                    ELSE Leave(conn_close(r), outcome)]
    /\ UNCHANGED dbframe

\* conn.execute("UPDATE cases ..."): an error raises out of the handler
DbUpdate(p, failed) ==
    /\ db[p].pc = "selected"
    /\ db' = [db EXCEPT ![p] = IF failed THEN Leave(@, "500") ELSE [@ EXCEPT !.pc = "updated"]]
    /\ UNCHANGED dbframe

\* conn.commit(); conn.close(): an error of the commit raises out of the handler
DbCommit(p, failed) ==
    /\ db[p].pc = "updated"
    /\ db' = [db EXCEPT ![p] =
                IF failed THEN Leave(@, "500")
                ELSE IF WritesEvent(@.op) THEN [conn_close(@) EXCEPT !.pc = "committed"]
                ELSE Leave(conn_close(@), "ok")]
    /\ UNCHANGED dbframe

\* insert_case_event: its own get_db(), INSERT, commit and close
DbEvent(p, failed) ==
    /\ db[p].pc = "committed"
    /\ db' = [db EXCEPT ![p] =
                IF failed THEN Leave(get_db(@), "500") ELSE Leave(conn_close(get_db(@)), "ok")]
    /\ UNCHANGED dbframe

\* -------------------------------------------------------------- migration
\* scripts/migrate_to_multitenant.py on a legacy database. Of each table it
\* scopes, the model keeps whether it exists, how many of its rows have
\* org_id NULL and how many carry the id of the default organisation.
Scoped == {"cases", "institutions", "protocols"}
NoTable == [exists |-> FALSE, nulls |-> 0, scoped |-> 0]
NoMig == [pc |-> "legacy", tables |-> [t \in Scoped |-> NoTable], status |-> "pending",
          errors |-> 0, returned |-> FALSE]

\* the legacy databases: each table absent or with up to MaxRows rows, none
\* of them with an org_id yet
LegacyTables == {NoTable} \cup {[exists |-> TRUE, nulls |-> n, scoped |-> 0] : n \in 0 .. MaxRows}

\* phase6_populate_org_ids for one table: UPDATE ... SET org_id = ? WHERE
\* org_id IS NULL, or nothing when the statement raised or the table is missing
PopulateOrgId(t, failed) ==
    IF t.exists /\ ~failed THEN [t EXCEPT !.nulls = 0, !.scoped = t.scoped + t.nulls] ELSE t

\* phase8_validate_data: validation_passed
validation_passed(tables) ==
    /\ tables["cases"].exists => tables["cases"].nulls = 0
    /\ tables["institutions"].exists => tables["institutions"].nulls = 0

\* the variables the migration leaves alone
migframe == <<mainvars, idvars, listing, attach, db, sess, resets>>

\* the database the script is pointed at
MigConnect(legacy) ==
    /\ mig.pc = "legacy"
    /\ mig' = [mig EXCEPT !.pc = "phase2", !.tables = legacy]
    /\ UNCHANGED migframe

\* phase2_add_org_id_columns (after phase 1): ALTER TABLE ... ADD COLUMN org_id
\* for the tables there are; a failure is logged and raised, and run() marks
\* the report failed
MigPhase2(failed) ==
    /\ mig.pc = "phase2"
    /\ mig' = IF failed /\ \E t \in Scoped : mig.tables[t].exists
              THEN [mig EXCEPT !.pc = "done", !.status = "failed", !.errors = @ + 2]
              ELSE [mig EXCEPT !.pc = "phase6"]
    /\ UNCHANGED migframe

\* phase6_populate_org_ids (after phases 3 to 5): one UPDATE per table, the
\* tables of failing the ones whose UPDATE raises; each is logged, none raised
MigPhase6(failing) ==
    /\ mig.pc = "phase6"
    /\ failing \subseteq {t \in Scoped : mig.tables[t].exists}
    /\ mig' = [mig EXCEPT !.pc = "phase8",
                          !.tables = [t \in Scoped |-> PopulateOrgId(mig.tables[t], t \in failing)],
                          !.errors = @ + Cardinality(failing)]
    /\ UNCHANGED migframe

\* phase8_validate_data (after phase 7) and the end of run(): the report gets
\* its status, run() returns True
MigPhase8 ==
    /\ mig.pc = "phase8"
    /\ LET passed == validation_passed(mig.tables)
           missing == Cardinality({t \in {"cases", "institutions"} :
                                      mig.tables[t].exists /\ mig.tables[t].nulls > 0})
       IN mig' = [mig EXCEPT !.pc = "done",
                             !.status = IF passed THEN "success" ELSE "warning",
                             !.errors = @ + missing,
                             !.returned = TRUE]
    /\ UNCHANGED migframe

\* --------------------------------------------------------------- sessions
\* The sessions of one user. Each login issues a cookie with a fresh
\* session_id (1, 2, ...) and tries to store the id in user_sessions; a
\* request carries one of the cookies not yet cleared.
Backends == {"sqlite", "postgres"}
LookupError == -1
NoSess == [started |-> FALSE, backend |-> "sqlite", issued |-> 0, cleared |-> {},
           user_sessions |-> 0, out |-> [session_id |-> 0, accepted |-> FALSE]]

\* init_db creates user_sessions in its PostgreSQL branch only
UserSessionsTable(backend) == backend = "postgres"

\* conn.cursor(): sqlite3 connections have it, the SAConn wrapper get_db
\* returns for PostgreSQL defines execute, commit, rollback and close only
HasCursor(backend) == backend = "sqlite"

\* login_submit: the row of user_sessions after its upsert, whose exceptions
\* are passed over; dialect says whether the backend accepts datetime('now')
StoreSessionId(s, session_id, dialect) ==
    IF UserSessionsTable(s.backend) /\ dialect THEN session_id ELSE s.user_sessions

\* get_session_user: the session_id it reads from user_sessions (0: no row),
\* or LookupError when the cursor or the SELECT raised
stored_session_id(s) ==
    IF HasCursor(s.backend) /\ UserSessionsTable(s.backend) THEN s.user_sessions ELSE LookupError

\* get_session_user: the request is served as the user of its cookie unless
\* the cookie's login_time is older than the session timeout or another
\* session_id was read
get_session_user(s, session_id, timed_out) ==
    /\ ~timed_out
    /\ ~(stored_session_id(s) \notin {LookupError, 0} /\ stored_session_id(s) # session_id)

\* the variables the sessions leave alone
sessframe == <<mainvars, idvars, listing, attach, db, mig, resets>>

\* startup on one of the two backends
SessStartup(backend) ==
    /\ ~sess.started
    /\ sess' = [sess EXCEPT !.started = TRUE, !.backend = backend]
    /\ UNCHANGED sessframe

\* login_submit with the right password, from one more browser
SessLogin(dialect) ==
    /\ sess.started
    /\ sess.issued < MaxLogins
    /\ (sess.backend = "sqlite" => dialect)
    /\ sess' = [sess EXCEPT !.issued = @ + 1,
                            !.user_sessions = StoreSessionId(sess, sess.issued + 1, dialect)]
    /\ UNCHANGED sessframe

\* any request that calls get_session_user, sent with the cookie session_id,
\* within the session timeout or after it
SessRequest(session_id, timed_out) ==
    /\ session_id \in (1 .. sess.issued) \ sess.cleared
    /\ LET accepted == get_session_user(sess, session_id, timed_out)
       IN sess' = [sess EXCEPT !.out = [session_id |-> session_id, accepted |-> accepted],
                               !.cleared = IF accepted THEN @ ELSE @ \cup {session_id}]
    /\ UNCHANGED sessframe

\* --------------------------------------------------------- password reset
\* The rows of password_reset_tokens of one user, the number of times each
\* token led to an UPDATE of users.password_hash, and the reset submissions
\* being served.
Tokens == 1 .. MaxTokens
NoToken == [issued |-> FALSE, used_at |-> FALSE, expired |-> FALSE, changes |-> 0]
NoReset == [pc |-> "idle", token |-> 0, exit |-> NULL]
NoResets == [started |-> FALSE, backend |-> "sqlite",
             tokens |-> [t \in Tokens |-> NoToken], reqs |-> [p \in Procs |-> NoReset]]

\* row.get("used_at"): the rows of the SQLAlchemy wrapper are dicts, the rows
\* of sqlite3 are sqlite3.Row objects, which have no get()
RowHasGet(backend) == backend = "postgres"

\* reset_password_submit from its SELECT to the last check before the UPDATE:
\* the status it returns, "500" when row.get raised, or "ok"
ResetCheck(r, t) ==
    LET row == r.tokens[t]
    IN IF ~row.issued THEN "400"
       ELSE IF ~RowHasGet(r.backend) THEN "500"
       ELSE IF row.used_at THEN "400"
       ELSE IF row.expired THEN "400"
       ELSE "ok"

\* UPDATE users SET password_hash ...; UPDATE password_reset_tokens SET used_at
ResetUpdate(row) == [row EXCEPT !.changes = @ + 1, !.used_at = TRUE]

\* the variables the password reset leaves alone
resetframe == <<mainvars, idvars, listing, attach, db, mig, sess>>

\* startup on one of the two backends
ResetStartup(backend) ==
    /\ ~resets.started
    /\ resets' = [resets EXCEPT !.started = TRUE, !.backend = backend]
    /\ UNCHANGED resetframe

\* forgot_password_submit for the user's email: one more token, good for 60 minutes
forgot_password_submit ==
    /\ resets.started
    /\ \E t \in Tokens :
          /\ ~resets.tokens[t].issued
          /\ \A v \in Tokens : v < t => resets.tokens[v].issued
          /\ resets' = [resets EXCEPT !.tokens[t].issued = TRUE]
    /\ UNCHANGED resetframe

\* the 60 minutes of an unexpired token pass
TokenExpires(t) ==
    /\ resets.tokens[t].issued /\ ~resets.tokens[t].expired
    /\ resets' = [resets EXCEPT !.tokens[t].expired = TRUE]
    /\ UNCHANGED resetframe

\* reset_password_submit, first part: the SELECT of the token row and the
\* checks of used_at and expires_at
ResetSelect(p, t) ==
    /\ resets.started
    /\ resets.reqs[p].pc \in {"idle", "done"}
    /\ LET code == ResetCheck(resets, t)
       IN resets' = [resets EXCEPT !.reqs[p] =
                        IF code = "ok" THEN [pc |-> "checked", token |-> t, exit |-> NULL]
                        ELSE [pc |-> "done", token |-> t, exit |-> code]]
    /\ UNCHANGED resetframe

\* reset_password_submit, second part: the two UPDATEs and the commit, on the
\* strength of the row read before
ResetWrite(p) ==
    /\ resets.reqs[p].pc = "checked"
    /\ LET t == resets.reqs[p].token
       IN resets' = [resets EXCEPT !.tokens[t] = ResetUpdate(@),
                                   !.reqs[p] = [pc |-> "done", token |-> t, exit |-> "303"]]
    /\ UNCHANGED resetframe

\* ------------------------------------------------------- specifications
\* memberships of the seeded users: 2 administers organisation 1, 3 is a
\* radiologist of organisation 1 created with a profile, 4 was created as a
\* plain user of organisation 2 and then given the radiologist role
SeedMembership(v) ==
    IF v = 2 THEN [org_id |-> 1, org_role |-> "org_admin", is_active |-> TRUE]
    ELSE IF v = 3 THEN [org_id |-> 1, org_role |-> "radiologist", is_active |-> TRUE]
    ELSE IF v = 4 THEN [org_id |-> 2, org_role |-> "radiologist", is_active |-> TRUE]
    ELSE NoMembership

\* a database holding the superadmin and three users added through add_user
Init ==
    /\ users = [v \in UserIds |-> [exists |-> TRUE, profile |-> (v = 3)]]
    /\ memberships = [v \in UserIds |-> SeedMembership(v)]
    /\ session = [v \in UserIds |-> NoSession]
    /\ cases = [c \in CaseIds |-> NoCase]
    /\ case_events = [c \in CaseIds |-> <<>>]
    /\ intake_token = {1}
    /\ inflight = [p \in Procs |-> Idle]
    /\ resp = NoResp
    /\ nreq = 0
    /\ clock = NoClock
    /\ timeline = NoTimeline
    /\ organisations = [o \in Orgs |-> [is_active |-> TRUE]]
    /\ case_ids = <<>>
    /\ submits = [p \in Procs |-> NoSubmit]
    /\ listing = NoListing
    /\ attach = NoAttach
    /\ db = [p \in Procs |-> NoDb]
    /\ mig = NoMig
    /\ sess = NoSess
    /\ resets = NoResets

\* the users who send requests, and the names their forms carry
Actors == {1, 2, 3}
Names == {EmptyName, DisplayName(3)}

\* the case ids requests name: the rows there are and the first unused id
\* (every unused id is answered alike)
Addressed == {c \in CaseIds : c <= NextCaseId}

\* every request of the case lifecycle, memberships left as seeded
Next ==
    \/ \E u \in Actors : login_submit(u)
    \/ \E u \in Actors, i \in Institutions, rad \in Names, a \in BOOLEAN :
          \E o \in (IF u = SUPERADMIN THEN Orgs \cup {NoOrg} ELSE {NoOrg}) :
             submit_case(u, i, o, rad, a)
    \/ \E o \in Orgs, t \in BOOLEAN, i \in Institutions, a \in BOOLEAN :
          intake_submit(o, t, i, a)
    \/ \E u \in Actors, c \in Addressed, rad \in Names : assign_radiologist(u, c, rad)
    \/ \E u \in Actors, c \in Addressed, f \in VetForms : vet_submit(u, c, f)
    \/ \E u \in Actors, c \in Addressed : admin_reopen_case_submit(u, c)
    \/ \E u \in Actors, c \in Addressed, rad \in Names, p \in {"", "P"} :
          admin_case_edit_save(u, c, cases[c].institution_id, rad, p)
    \/ \E u \in Actors, c \in Addressed : admin_case_view(u, c)
    \/ \E u \in Actors, c \in Addressed : download_attachment(u, c)
    \/ \E u \in Actors : admin_events_csv(u)

Spec == Init /\ [][Next]_vars

\* requests of a superadmin who edits and removes memberships, and of the
\* members affected
AuthActors == {1, 2, 4}
NextAuth ==
    \/ \E u \in AuthActors : login_submit(u)
    \/ \E u \in AuthActors, o \in Orgs, t \in {2, 4}, r \in OrgRoles :
          mt_edit_user_submit(u, o, t, r)
    \/ \E u \in AuthActors, o \in Orgs, t \in {2, 4} : mt_remove_user(u, o, t)
    \/ \E u \in AuthActors, i \in Institutions :
          \E o \in (IF u = SUPERADMIN THEN Orgs \cup {NoOrg} ELSE {NoOrg}) :
             submit_case(u, i, o, EmptyName, TRUE)
    \/ \E u \in AuthActors, c \in Addressed, rad \in {EmptyName, Username(4)} :
          assign_radiologist(u, c, rad)
    \/ \E u \in AuthActors, c \in Addressed,
          f \in {g \in VetForms : g.decision = "Approve" /\ g.protocol = "P" /\ ~g.comment} :
          vet_submit(u, c, f)
    \/ \E u \in AuthActors, c \in Addressed : admin_reopen_case_submit(u, c)
    \/ \E u \in AuthActors, c \in Addressed : admin_case_edit_save(u, c, cases[c].institution_id, EmptyName, "P")
    \/ \E u \in AuthActors, c \in Addressed : download_attachment(u, c)

SpecAuth == Init /\ [][NextAuth]_vars

\* an administrator submits cases for reviewer 3, who posts vet forms for a
\* pending case from two windows at once; a worker may die between steps
NextConc ==
    \/ \E u \in {2, 3} : login_submit(u)
    \/ \E rad \in Names : submit_case(2, 1, NoOrg, rad, TRUE)
    \/ \E p \in Procs, c \in Addressed, f \in VetForms :
          cases[c].status = "pending" /\ VetBegin(p, 3, c, f)
    \/ \E p \in Procs : VetWrite(p)
    \/ \E p \in Procs : VetLog(p)
    \/ \E p \in Procs : Crash(p)

SpecConc == Init /\ [][NextConc]_vars

\* the writes of the case lifecycle alone: the superadmin, the administrator
\* and the radiologist of organisation 1 submit, assign, vet, reopen and edit
NextLife ==
    \/ \E u \in Actors : login_submit(u)
    \/ \E u \in Actors, rad \in Names :
          \E o \in (IF u = SUPERADMIN THEN Orgs ELSE {NoOrg}) :
             submit_case(u, 1, o, rad, TRUE)
    \/ \E u \in Actors, c \in Addressed, rad \in Names : assign_radiologist(u, c, rad)
    \/ \E u \in Actors, c \in Addressed, f \in VetForms : vet_submit(u, c, f)
    \/ \E u \in Actors, c \in Addressed : admin_reopen_case_submit(u, c)
    \/ \E u \in Actors, c \in Addressed, rad \in Names, p \in {"", "P"} :
          admin_case_edit_save(u, c, cases[c].institution_id, rad, p)

SpecLife == Init /\ [][NextLife]_vars

\* the administrator of organisation 1 works from two windows at once: an edit
\* served step by step, with assignments, reopens and the vets of radiologist 3
\* served between its steps
NextRace ==
    \/ \E u \in {2, 3} : login_submit(u)
    \/ \E rad \in Names : submit_case(2, 1, NoOrg, rad, TRUE)
    \/ \E p \in Procs, c \in Addressed, rad \in Names, protocol \in {"", "P"} :
          EditBegin(p, 2, c, rad, protocol)
    \/ \E p \in Procs : EditWrite(p)
    \/ \E p \in Procs : EditLog(p)
    \/ \E c \in Addressed, rad \in Names : assign_radiologist(2, c, rad)
    \/ \E c \in Addressed : admin_reopen_case_submit(2, c)
    \/ \E c \in Addressed, f \in VetForms : vet_submit(3, c, f)

SpecRace == Init /\ [][NextRace]_vars

\* ------------------------------------------------------------ SLA clock
\* tat_seconds without its clamp
tat_seconds_Unclamped(created_at, vetted_at, now) ==
    IF created_at = NoTime THEN 0
    ELSE (IF vetted_at # NoTime THEN vetted_at ELSE now) - created_at

\* tat_seconds(created_at, vetted_at), read at wall-clock time now
tat_seconds(created_at, vetted_at, now) ==
    IF created_at = NoTime THEN 0
    ELSE LET end_dt == IF vetted_at # NoTime THEN vetted_at ELSE now
         IN IF end_dt - created_at > 0 THEN end_dt - created_at ELSE 0

\* the SLA of a case row: its institution's sla_hours, 48 when the institution
\* row is gone
sla_hours(institution_id) ==
    IF get_institution(institution_id, NoOrg) THEN SeedSlaHours ELSE DEFAULT_SLA_HOURS

\* a breach test that does not look at the status
sla_breached_AnyStatus(status, secs, hours) == secs > hours * SECONDS_PER_HOUR

\* d["sla_breached"] of the dashboards
sla_breached(status, secs, hours) ==
    status = "pending" /\ secs > hours * SECONDS_PER_HOUR

\* the variables the clock actions leave alone
appvars == <<users, memberships, session, cases, case_events, intake_token, inflight, resp, nreq,
            timeline, organisations, sidevars>>

\* an hour passes
ClockTick ==
    /\ clock.now < MaxHours * SECONDS_PER_HOUR
    /\ clock' = [clock EXCEPT !.now = @ + SECONDS_PER_HOUR, !.view = NoView]
    /\ UNCHANGED appvars

\* the INSERT of submit_case: created_at is utc_now_iso() of the worker that
\* serves the request, whose clock may run ahead of the one the dashboards read
ClockSubmit(i, ahead) ==
    /\ ~clock.exists
    /\ clock' = [clock EXCEPT !.exists = TRUE, !.status = "pending",
                              !.created_at = clock.now + ahead * SECONDS_PER_HOUR,
                              !.vetted_at = NoTime, !.institution_id = i, !.view = NoView]
    /\ UNCHANGED appvars

\* the UPDATE of vet_submit: status and vetted_at = utc_now_iso()
ClockVet(decision) ==
    /\ clock.exists
    /\ clock' = [clock EXCEPT !.status = IF decision = "Reject" THEN "rejected" ELSE "vetted",
                              !.vetted_at = clock.now, !.view = NoView]
    /\ UNCHANGED appvars

\* the UPDATE of admin_reopen_case_submit: status 'reopened', vetted_at NULL
ClockReopen ==
    /\ clock.exists
    /\ clock' = [clock EXCEPT !.status = "reopened", !.vetted_at = NoTime, !.view = NoView]
    /\ UNCHANGED appvars

\* DELETE FROM institutions: the institution of the case is removed
ClockDropInstitution ==
    /\ clock.exists
    /\ clock.institution_id # 0
    /\ clock' = [clock EXCEPT !.institution_id = 0, !.view = NoView]
    /\ UNCHANGED appvars

\* the row of the case on the admin and radiologist dashboards
dashboard_row ==
    /\ clock.exists
    /\ ~clock.view.shown
    /\ LET secs == tat_seconds(clock.created_at, clock.vetted_at, clock.now)
       IN clock' = [clock EXCEPT !.view =
                      [shown |-> TRUE, secs |-> secs,
                       sla_breached |-> sla_breached(clock.status, secs,
                                                     sla_hours(clock.institution_id))]]
    /\ UNCHANGED appvars

NextClock ==
    \/ ClockTick
    \/ \E ahead \in 0 .. MaxAhead : ClockSubmit(1, ahead)
    \/ \E decision \in {"Approve", "Reject"} : ClockVet(decision)
    \/ ClockReopen
    \/ ClockDropInstitution
    \/ dashboard_row

SpecClock == Init /\ [][NextClock]_vars

\* ------------------------------------------------------------- timeline
\* the variables the timeline actions leave alone
basevars == <<users, memberships, session, cases, case_events, intake_token, inflight, resp, nreq,
             clock, organisations, sidevars>>

\* insert_case_event with its created_at = utc_now_iso(): the row gets the next
\* id and the time read by the worker that serves the request
TimelineInsert(t) ==
    /\ Len(timeline.rows) < MaxEvents
    /\ timeline' = [timeline EXCEPT !.rows =
                        Append(@, [id |-> Len(@) + 1, created_at |-> t])]
    /\ UNCHANGED basevars

\* the results SELECT * FROM case_events WHERE case_id = ? ORDER BY created_at ASC
\* can return: every row once, in ascending created_at; the statement gives no
\* second sort key, so rows with equal created_at come in any order
OrderByCreatedAt(rows) ==
    {r \in [1 .. Len(rows) -> {rows[k] : k \in 1 .. Len(rows)}] :
        /\ \A k \in 1 .. Len(rows) : \E i \in 1 .. Len(rows) : r[i] = rows[k]
        /\ \A i, j \in 1 .. Len(rows) : i < j => r[i].created_at <= r[j].created_at}

\* GET /admin/case/{case_id} and its timeline CSV: the events they list
admin_case_timeline ==
    /\ \E r \in OrderByCreatedAt(timeline.rows) : timeline' = [timeline EXCEPT !.events = r]
    /\ UNCHANGED basevars

NextTimeline ==
    \/ \E t \in 0 .. MaxStamp : TimelineInsert(t)
    \/ admin_case_timeline

SpecTimeline == Init /\ [][NextTimeline]_vars

\* ------------------------------------------------------------ retention
\* POST /mt/org/{org_id}/edit: the superuser sets organisations.is_active
mt_edit_org_submit(u, o, is_active) ==
    /\ users[u].exists
    /\ Request
    /\ LET code == IF require_admin(u) # "ok" THEN "login"
                   ELSE IF ~session[u].is_superuser THEN "403"
                   ELSE "ok"
       IN /\ organisations' = IF code = "ok"
                              THEN [organisations EXCEPT ![o].is_active = is_active]
                              ELSE organisations
          /\ resp' = Resp("edit_org", u, 0, code, {})
    /\ UNCHANGED <<sidevars, timeline, clock, users, memberships, session, cases, case_events, intake_token,
                   inflight>>

\* a cleanup that removes the row of an expired case
CleanupUpdate_DeletesRow(row) == NoCase

\* cleanup_old_files: UPDATE cases SET stored_filepath = NULL WHERE id = ?
CleanupUpdate(row) == [row EXCEPT !.stored_filepath = FALSE]

\* cleanup_old_files at start-up: old is the set of cases created more than
\* REFERRAL_FILE_TTL_DAYS ago that still have a stored path
cleanup_old_files(old) ==
    /\ old # {}
    /\ \A c \in old : cases[c].exists /\ cases[c].stored_filepath
    /\ cases' = [c \in CaseIds |-> IF c \in old THEN CleanupUpdate(cases[c]) ELSE cases[c]]
    /\ UNCHANGED <<sidevars, organisations, timeline, clock, users, memberships, session, case_events,
                   intake_token, inflight, resp, nreq>>

\* the superadmin and the administrator of organisation 1 submit and assign
\* cases while organisations are disabled and attachments expire
NextRetention ==
    \/ \E u \in {SUPERADMIN, 2} : login_submit(u)
    \/ \E u \in {SUPERADMIN, 2}, rad \in Names :
          \E o \in (IF u = SUPERADMIN THEN Orgs ELSE {NoOrg}) : submit_case(u, 1, o, rad, TRUE)
    \/ \E u \in {SUPERADMIN, 2}, c \in Addressed, rad \in Names : assign_radiologist(u, c, rad)
    \/ \E u \in {SUPERADMIN, 2}, o \in Orgs, is_active \in BOOLEAN : mt_edit_org_submit(u, o, is_active)
    \/ \E old \in SUBSET CaseIds : cleanup_old_files(old)

SpecRetention == Init /\ [][NextRetention]_vars

\* the superadmin and the administrator of organisation 1 submit cases and edit
\* them, naming any institution (0: a form field that holds no number)
NextInst ==
    \/ \E u \in {SUPERADMIN, 2} : login_submit(u)
    \/ \E u \in {SUPERADMIN, 2}, i \in Institutions :
          \E o \in (IF u = SUPERADMIN THEN Orgs ELSE {NoOrg}) :
             submit_case(u, i, o, EmptyName, TRUE)
    \/ \E u \in {SUPERADMIN, 2}, c \in Addressed, i \in Institutions \cup {0} :
          admin_case_edit_save(u, c, i, EmptyName, "")

SpecInst == Init /\ [][NextInst]_vars

\* submits of the day, single and batch, served concurrently: between the read
\* of generate_case_ids and each INSERT any other request may run
NextIds ==
    \/ \E p \in Procs, count \in 1 .. MaxBatch : SubmitGenerate(p, count)
    \/ \E p \in Procs : SubmitInsert(p)

SpecIds == Init /\ [][NextIds]_vars

\* a case of reviewer 3 is submitted, vetted and reopened, and the dashboards
\* are read in between
NextQueue ==
    \/ \E u \in {2, 3} : login_submit(u)
    \/ submit_case(2, 1, NoOrg, DisplayName(3), TRUE)
    \/ \E c \in Addressed, f \in {g \in VetForms : g.decision = "Reject" \/ g.protocol = "P"} :
          vet_submit(3, c, f)
    \/ \E c \in Addressed : admin_reopen_case_submit(2, c)
    \/ \E u \in {2, 3}, tab \in Tabs : admin_dashboard(u, tab)
    \/ \E u \in {2, 3}, tab \in Tabs : radiologist_dashboard(u, tab)

SpecQueue == Init /\ [][NextQueue]_vars

\* a case with a referral, on a deployment with or without blob storage: the
\* case is viewed and its attachment downloaded while events are appended and
\* the referral may leave its backend
NextAttach ==
    \/ \E enabled \in BOOLEAN : AttachStartup(enabled)
    \/ \E uploaded, intake \in BOOLEAN : AttachSubmit(uploaded, intake)
    \/ AttachEvent
    \/ AttachLost
    \/ AttachView
    \/ \E reachable \in BOOLEAN : AttachDownload(reachable)

SpecAttach == Init /\ [][NextAttach]_vars

\* vets, assignments and reopens served in two slots, each statement of a
\* handler succeeding or raising
NextDb ==
    \/ \E p \in Procs, op \in DbOps, outcome \in {"ok", "500", "404", "403", "400"} :
          DbSelect(p, op, outcome)
    \/ \E p \in Procs, failed \in BOOLEAN : DbUpdate(p, failed)
    \/ \E p \in Procs, failed \in BOOLEAN : DbCommit(p, failed)
    \/ \E p \in Procs, failed \in BOOLEAN : DbEvent(p, failed)

SpecDb == Init /\ [][NextDb]_vars

\* one run of the migration on any legacy database
NextMig ==
    \/ \E legacy \in [Scoped -> LegacyTables] : MigConnect(legacy)
    \/ \E failed \in BOOLEAN : MigPhase2(failed)
    \/ \E failing \in SUBSET Scoped : MigPhase6(failing)
    \/ MigPhase8

SpecMig == Init /\ [][NextMig]_vars

\* a user logs in from several browsers and sends requests from any of them
NextSess ==
    \/ \E backend \in Backends : SessStartup(backend)
    \/ \E dialect \in BOOLEAN : SessLogin(dialect)
    \/ \E session_id \in 1 .. MaxLogins, timed_out \in BOOLEAN : SessRequest(session_id, timed_out)

SpecSess == Init /\ [][NextSess]_vars

\* reset links are requested, expire, and are submitted from two windows at
\* once
NextReset ==
    \/ \E backend \in Backends : ResetStartup(backend)
    \/ forgot_password_submit
    \/ \E t \in Tokens : TokenExpires(t)
    \/ \E p \in Procs, t \in Tokens : ResetSelect(p, t)
    \/ \E p \in Procs : ResetWrite(p)

SpecReset == Init /\ [][NextReset]_vars

\* ------------------------------------------------------------- properties
\* the organisation a session is scoped to: none for a visitor or a superuser
ScopeOf(s) == IF s.active /\ ~s.is_superuser THEN s.org_id ELSE NoOrg

\* the step just taken served one request of handler op
Served(op) == nreq' = nreq + 1 /\ resp'.op = op

\* positions of the VETTED rows in the event log of case c
VettedEvents(c) ==
    {k \in 1 .. Len(case_events[c]) : case_events[c][k].event_type = "VETTED"}

C2_OneVetWins == \A c \in CaseIds : Cardinality(VettedEvents(c)) <= 1

\* C3: audit atomicity. Once no request is being served (finished or died),
\* every case whose row says vetted or rejected has a VETTED event carrying
\* the decision of the row.
C3_AuditAtomicity ==
    (\A p \in Procs : inflight[p].pc = "idle")
    => \A c \in CaseIds :
         cases[c].status \in {"vetted", "rejected"}
         => \E k \in VettedEvents(c) : case_events[c][k].decision = cases[c].decision

\* status and decision obtained by replaying an event log from its first row
RECURSIVE Replay(_)
Replay(evs) ==
    IF evs = <<>> THEN [status |-> NULL, decision |-> NULL]
    ELSE LET e == evs[Len(evs)]
             before == Replay(SubSeq(evs, 1, Len(evs) - 1))
         IN IF e.event_type = "SUBMITTED" THEN [status |-> "pending", decision |-> NULL]
            ELSE IF e.event_type = "VETTED"
                 THEN [status |-> IF e.decision = "Reject" THEN "rejected" ELSE "vetted",
                       decision |-> e.decision]
            ELSE IF e.event_type = "REOPENED" THEN [status |-> "reopened", decision |-> NULL]
            ELSE before

\* C4: replay round trip. Replaying the event log of a case yields the status
\* and the decision its row holds.
C4_ReplayRoundTrip ==
    \A c \in CaseIds :
        cases[c].exists
        => Replay(case_events[c]) = [status |-> cases[c].status, decision |-> cases[c].decision]

\* C5: for every case, vetted_at is set exactly when the status is vetted or
\* rejected.
C5_VettedAtIffDecided ==
    \A c \in CaseIds :
        cases[c].exists
        => (cases[c].vetted_at # NULL <=> cases[c].status \in {"vetted", "rejected"})

\* a case that was vetted and then reopened: vetted_at is NULL again
C5_Witness ==
    \E c \in CaseIds :
        /\ cases[c].status = "reopened" /\ cases[c].vetted_at = NULL
        /\ VettedEvents(c) # {}

\* the event type the audit trail prescribes for a lifecycle handler
EventTypeOf(op) ==
    IF op \in {"submit", "intake"} THEN "SUBMITTED"
    ELSE IF op = "assign" THEN "ASSIGNED"
    ELSE IF op = "vet" THEN "VETTED"
    ELSE IF op = "reopen" THEN "REOPENED"
    ELSE "EDITED"

\* C6: every successful submit, assign, vet, reopen or edit appends exactly
\* one event of the matching type to the log of the case it acted on.
C6_OneEventPerAction ==
    [][ (/\ nreq' = nreq + 1
         /\ resp'.code = "ok"
         /\ resp'.op \in {"submit", "intake", "assign", "vet", "reopen", "edit"})
        => LET c == resp'.case IN
           /\ Len(case_events'[c]) = Len(case_events[c]) + 1
           /\ SubSeq(case_events'[c], 1, Len(case_events[c])) = case_events[c]
           /\ case_events'[c][Len(case_events'[c])].event_type = EventTypeOf(resp'.op)
      ]_vars

\* C7: a vet request for a case that is already vetted or rejected is refused
\* and leaves the row as it was.
C7_VetOnlyWhenOpen ==
    [][ \A c \in CaseIds :
          (/\ cases[c].status \in {"vetted", "rejected"}
           /\ Served("vet") /\ resp'.case = c)
          => resp'.code # "ok" /\ cases'[c] = cases[c]
      ]_vars

IsAdminPrincipal(u) ==
    u \in UserIds /\ (u = SUPERADMIN
                      \/ (memberships[u].is_active /\ memberships[u].org_role = "org_admin"))

\* C9: a case is created, edited, assigned or reopened only at the request of
\* a superuser or of a user whose effective role is org_admin.
C9_AdminOnly ==
    [][ (/\ nreq' = nreq + 1
         /\ resp'.code = "ok"
         /\ resp'.op \in {"submit", "intake", "edit", "assign", "reopen"})
        => IsAdminPrincipal(resp'.user)
      ]_vars

\* C10: a request of a non-superuser whose session is scoped to an
\* organisation in which the user's membership has been deactivated is
\* refused.
C10_DeactivatedRefused ==
    [][ (/\ nreq' = nreq + 1
         /\ resp'.user \in UserIds \ {SUPERADMIN}
         /\ ~memberships[resp'.user].is_active
         /\ ScopeOf(session'[resp'.user]) = memberships[resp'.user].org_id)
        => resp'.code # "ok"
      ]_vars

\* insert_case_event: the org_role column it stores for the session it is given
EventOrgRole(s) == IF s.org_role # NULL THEN s.org_role ELSE s.role

\* the step appended exactly one row to the event log, all logs taken together
OneEventAppended ==
    \E c \in CaseIds :
        /\ Len(case_events'[c]) = Len(case_events[c]) + 1
        /\ \A d \in CaseIds \ {c} : case_events'[d] = case_events[d]

\* C11: every successful write of the superuser (submit, edit, assign, reopen,
\* membership change) appends exactly one audit row, and the role recorded on
\* that row marks it as a superuser action.
C11_SuperuserAudited ==
    [][ (/\ nreq' = nreq + 1
         /\ resp'.user = SUPERADMIN
         /\ resp'.code = "ok"
         /\ resp'.op \in {"submit", "edit", "assign", "reopen", "edit_user", "remove_user"})
        => /\ OneEventAppended
           /\ EventOrgRole(session'[SUPERADMIN]) \notin {"admin", "org_admin", "radiologist", "org_user", "user"}
      ]_vars

\* C12: a Reject posted without a comment by a radiologist is answered 400 and
\* changes neither the case rows nor the event log; posted with a comment for
\* a case assigned to that radiologist it succeeds, the case becomes rejected
\* and its protocol is emptied.
C12_RejectNeedsComment ==
    [][ \A f \in VetForms :
          (/\ Served("vet")
           /\ f.decision = "Reject"
           /\ resp'.user \in UserIds
           /\ vet_submit(resp'.user, resp'.case, f))
          => LET u == resp'.user
                 c == resp'.case
                 row == SelectCase(c, ContextSession(u).org_id)
             IN IF ~f.comment
                THEN /\ resp'.code # "ok"
                     /\ require_radiologist(u) = "ok" => resp'.code = "400"
                     /\ cases' = cases /\ case_events' = case_events
                ELSE (/\ require_radiologist(u) = "ok"
                      /\ row.exists
                      /\ row.radiologist \in RadiologistNames(u))
                     => /\ resp'.code = "ok"
                        /\ cases'[c].status = "rejected"
                        /\ cases'[c].decision = "Reject"
                        /\ cases'[c].protocol = ""
      ]_vars

\* a case approved with a protocol has then been rejected with a comment: its
\* protocol is empty
C12_Witness ==
    /\ resp.op = "vet" /\ resp.code = "ok" /\ resp.case \in CaseIds
    /\ cases[resp.case].status = "rejected" /\ cases[resp.case].protocol = ""
    /\ \E k \in VettedEvents(resp.case) : case_events[resp.case][k].decision = "Approve"

\* C13: a reopen request for a case that is neither vetted nor rejected (a
\* pending or an already reopened case) is refused and leaves the row as it
\* was.
C13_ReopenOnlyWhenDecided ==
    [][ \A c \in CaseIds :
          (/\ Served("reopen") /\ resp'.case = c
           /\ cases[c].exists
           /\ cases[c].status \notin {"vetted", "rejected"})
          => resp'.code # "ok" /\ cases'[c] = cases[c]
      ]_vars

\* C14: the event log of a case is append-only: no step removes, reorders or
\* rewrites a row, so the log before a step is a prefix of the log after it
C14_AppendOnly ==
    [][ \A c \in CaseIds :
          /\ Len(case_events[c]) <= Len(case_events'[c])
          /\ SubSeq(case_events'[c], 1, Len(case_events[c])) = case_events[c] ]_vars

\* a case whose log has grown by a second row whose content differs from the first
C14_Witness ==
    \E c \in CaseIds :
        /\ Len(case_events[c]) >= 2
        /\ case_events[c][1] # case_events[c][2]

\* C15: the organisation of a case is fixed at creation: no step (assign, vet,
\* reopen, edit; done by a superuser or not) removes a case or changes its org_id
C15_OrgIdImmutable ==
    [][ \A c \in CaseIds :
          cases[c].exists => cases'[c].exists /\ cases'[c].org_id = cases[c].org_id ]_vars

\* a superuser has just edited a case of organisation 2 and changed the row
C15_Witness ==
    /\ resp.op = "edit" /\ resp.code = "ok" /\ resp.user = SUPERADMIN
    /\ resp.case \in CaseIds
    /\ cases[resp.case].org_id = 2
    /\ cases[resp.case].protocol = "P"

\* C16: an edit served concurrently with an assignment is serialized with it and
\* loses no update: the row the edit writes is the row it would write had it read
\* the case at the moment of its UPDATE
C16_NoLostUpdate ==
    [][ \A p \in Procs :
          (inflight[p].pc = "edit_update" /\ inflight'[p].pc = "edit_event")
          => cases'[inflight[p].case] =
                EditUpdate(cases[inflight[p].case], cases[inflight[p].case],
                           inflight[p].rad, inflight[p].form.protocol) ]_vars

\* end of the turnaround interval and SLA of the case the clock follows, as
\* the claims state them
EndOf(k) == IF k.vetted_at # NoTime THEN k.vetted_at ELSE k.now
SlaOf(k) == IF k.institution_id = 0 THEN DEFAULT_SLA_HOURS ELSE SeedSlaHours

\* C17: the dashboards report a case breached exactly when it is pending and its
\* turnaround exceeds the SLA hours of its institution (48 when it has none): a
\* pending case is breached one hour after its SLA has run out, and once a case
\* has been vetted it never becomes pending, hence never breached, again
C17_BreachedIffPendingPastSla ==
    /\ [](clock.view.shown =>
            LET secs == IF EndOf(clock) > clock.created_at
                        THEN EndOf(clock) - clock.created_at ELSE 0
            IN /\ clock.view.sla_breached
                    <=> (clock.status = "pending" /\ secs > SlaOf(clock) * SECONDS_PER_HOUR)
               /\ (/\ clock.status = "pending"
                   /\ clock.now = clock.created_at + (SlaOf(clock) + 1) * SECONDS_PER_HOUR)
                  => clock.view.sla_breached
               /\ clock.status \in {"vetted", "rejected", "reopened"}
                  => ~clock.view.sla_breached)
    /\ [][(clock.exists /\ clock.status # "pending") => clock'.status # "pending"]_vars

\* a pending case of an institution with a 24-hour SLA, shown breached 25 hours
\* after its creation
C17_Witness ==
    /\ clock.view.shown /\ clock.view.sla_breached
    /\ clock.status = "pending" /\ clock.institution_id = 1
    /\ clock.now = clock.created_at + (SeedSlaHours + 1) * SECONDS_PER_HOUR

\* C18: the turnaround shown is max(0, end - created_at): never negative, zero
\* when the end is not after the creation, and no later end gives a smaller one
C18_TurnaroundClamped ==
    clock.view.shown =>
        LET created == clock.created_at
            end == EndOf(clock)
        IN /\ clock.view.secs >= 0
           /\ clock.view.secs = (IF end - created > 0 THEN end - created ELSE 0)
           /\ end <= created => clock.view.secs = 0
           /\ \A e \in Times : e >= end => tat_seconds(created, NoTime, e) >= clock.view.secs
           /\ \A e \in Times : e <= end => tat_seconds(created, e, clock.now) <= clock.view.secs

\* a case stamped by a clock running ahead, vetted before its created_at: the
\* turnaround shown is clamped to zero
C18_Witness ==
    /\ clock.view.shown /\ clock.view.secs = 0
    /\ clock.vetted_at # NoTime /\ clock.vetted_at < clock.created_at

\* C19: a principal who is not a superuser learns nothing about the cases of
\* another organisation: a reopen that names such a case is answered exactly as
\* the same reopen naming a case id that does not exist
C19_NoExistenceOracle ==
    [][ \A u \in UserIds, c \in CaseIds :
          (/\ Served("reopen") /\ resp'.user = u /\ resp'.case = c
           /\ ~ContextSession(u).is_superuser
           /\ cases[c].exists /\ cases[c].org_id # ContextSession(u).org_id)
          => resp'.code = ReopenCheck(u, 0) ]_vars

C21_TimelineStableOrder ==
    \A i, j \in 1 .. Len(timeline.events) :
        i < j => \/ timeline.events[i].created_at < timeline.events[j].created_at
                 \/ /\ timeline.events[i].created_at = timeline.events[j].created_at
                    /\ timeline.events[i].id < timeline.events[j].id

\* C22: a case is never deleted: the set of case ids only grows, and disabling
\* an organisation or expiring an attachment leaves every case row (but for
\* its stored path) and every event in place
C22_CasesNeverDeleted ==
    [][ /\ \A c \in CaseIds :
             cases[c].exists
             => /\ cases'[c].exists
                /\ cases'[c].org_id = cases[c].org_id
                /\ SubSeq(case_events'[c], 1, Len(case_events[c])) = case_events[c]
        /\ organisations' # organisations => (cases' = cases /\ case_events' = case_events)
        /\ (\E c \in CaseIds : cases[c].stored_filepath /\ ~cases'[c].stored_filepath)
           => /\ case_events' = case_events
              /\ \A c \in CaseIds :
                   [cases'[c] EXCEPT !.stored_filepath = FALSE]
                     = [cases[c] EXCEPT !.stored_filepath = FALSE] ]_vars

\* organisation 1 is disabled and one of its cases, whose attachment has
\* expired, still holds its row and its ASSIGNED event
C22_Witness ==
    /\ ~organisations[1].is_active
    /\ \E c \in CaseIds :
          /\ cases[c].exists /\ cases[c].org_id = 1 /\ ~cases[c].stored_filepath
          /\ Len(case_events[c]) > 0

\* C23: no edit writes to a case that is locked (vetted with decision Approve)
\* at the moment of its UPDATE, also when the approving vet commits between the
\* edit's lock test and its UPDATE
C23_NoEditOfLockedCase ==
    [][ \A p \in Procs :
          (/\ inflight[p].pc = "edit_update" /\ inflight'[p].pc = "edit_event"
           /\ isLocked(cases[inflight[p].case]))
          => cases' = cases ]_vars

\* C24: an edit is accepted only at a non-terminal point of the lifecycle: an
\* edit of a case whose status is vetted or rejected, whatever its decision, is
\* refused and changes no field
C24_EditOnlyWhenOpen ==
    [][ \A c \in CaseIds :
          (/\ Served("edit") /\ resp'.case = c
           /\ cases[c].status \in {"vetted", "rejected"})
          => resp'.code # "ok" /\ cases'[c] = cases[c] ]_vars

\* C25: in every reachable state the status of a case is pending, vetted,
\* rejected or reopened; a vetted case holds an approving decision and a
\* non-empty protocol, a rejected case holds decision Reject and no protocol,
\* and a pending or reopened case holds no decision
C25_DecisionStatusConsistent ==
    \A c \in CaseIds :
        cases[c].exists
        => /\ cases[c].status \in {"pending", "vetted", "rejected", "reopened"}
           /\ cases[c].status = "vetted"
              => /\ cases[c].decision \in {"Approve", "Approve with comment"}
                 /\ cases[c].protocol \notin {"", NULL}
           /\ cases[c].status = "rejected"
              => /\ cases[c].decision = "Reject"
                 /\ cases[c].protocol \in {"", NULL}
           /\ cases[c].status \in {"pending", "reopened"} => cases[c].decision = NULL

\* C26: a successful reopen of a vetted or rejected case sets status reopened,
\* clears decision and protocol, sets vetted_at to NULL and changes no other
\* field of the case
C26_ReopenEffect ==
    [][ \A c \in CaseIds :
          (/\ Served("reopen") /\ resp'.case = c /\ resp'.code = "ok"
           /\ cases[c].status \in {"vetted", "rejected"})
          => /\ cases'[c].protocol \in {"", NULL}
             /\ cases'[c] = [cases[c] EXCEPT !.status = "reopened", !.decision = NULL,
                                             !.vetted_at = NULL,
                                             !.protocol = cases'[c].protocol] ]_vars

\* names of the users holding an active radiologist membership in organisation o
ActiveRadiologistsOf(o) ==
    {IF users[v].profile THEN DisplayName(v) ELSE Username(v) :
        v \in {w \in UserIds : /\ users[w].exists
                               /\ memberships[w].org_id = o
                               /\ memberships[w].is_active
                               /\ memberships[w].org_role = "radiologist"}}

\* C27: a reviewer set by an accepted assign is a principal with an active
\* radiologist membership in the organisation of the case, whoever the acting
\* principal is (a superuser without organisation context included)
C27_AssignOnlyOrgRadiologist ==
    [][ \A c \in CaseIds :
          (/\ Served("assign") /\ resp'.case = c /\ resp'.code = "ok"
           /\ cases'[c].radiologist # NullName)
          => cases'[c].radiologist \in ActiveRadiologistsOf(cases[c].org_id) ]_vars

\* C28: an assign is accepted only while the case is pending or reopened: on a
\* vetted or rejected case it is refused and the reviewer recorded with the
\* decision stays
C28_AssignOnlyWhenOpen ==
    [][ \A c \in CaseIds :
          (/\ Served("assign") /\ resp'.case = c
           /\ cases[c].status \in {"vetted", "rejected"})
          => /\ resp'.code # "ok"
             /\ cases'[c].radiologist = cases[c].radiologist ]_vars

\* the assigned reviewer of a row; NULL and '' both mean unassigned
ReviewerOf(row) == IF row.radiologist = NullName THEN EmptyName ELSE row.radiologist

\* C29: assign and edit leave status, decision and vetted_at of the case as
\* they were, and the reviewer of an existing case changes only in an assign,
\* which validates the name and appends an ASSIGNED event
C29_ReviewerChangesOnlyByAssign ==
    [][ \A c \in CaseIds :
          cases[c].exists
          => /\ (nreq' = nreq + 1 /\ resp'.op \in {"assign", "edit"} /\ resp'.case = c)
                => /\ cases'[c].status = cases[c].status
                   /\ cases'[c].decision = cases[c].decision
                   /\ cases'[c].vetted_at = cases[c].vetted_at
             /\ ReviewerOf(cases'[c]) # ReviewerOf(cases[c])
                => /\ resp'.op = "assign"
                   /\ Len(case_events'[c]) = Len(case_events[c]) + 1
                   /\ case_events'[c][Len(case_events'[c])].event_type = "ASSIGNED" ]_vars

\* C30: in every reachable state the institution a case refers to exists and
\* belongs to the organisation of the case
C30_InstitutionInCaseOrg ==
    \A c \in CaseIds :
        (cases[c].exists /\ cases[c].institution_id # 0)
        => /\ cases[c].institution_id \in Institutions
           /\ InstitutionOrg(cases[c].institution_id) = cases[c].org_id

RoleNeeded(op) == IF op = "vet" THEN "radiologist" ELSE "org_admin"

\* C32: a request of a user other than the superuser that changes a case is
\* served only when the user's membership is active, lies in the organisation
\* of that case and carries the org_role the operation asks for.
C32_RoleOfActiveMembershipInScope ==
    [][ (/\ nreq' = nreq + 1
         /\ resp'.code = "ok"
         /\ resp'.op \in {"submit", "edit", "assign", "reopen", "vet"}
         /\ resp'.user \in UserIds \ {SUPERADMIN}
         /\ resp'.case \in CaseIds)
        => LET m == memberships[resp'.user] IN
           /\ m.is_active
           /\ m.org_id = cases'[resp'.case].org_id
           /\ m.org_role = RoleNeeded(resp'.op)
      ]_vars

\* C33: a served Submit leaves exactly one new row, which is pending, has no
\* decision, no protocol and no vetted_at and lies in the organisation of the
\* acting principal (any organisation for the superuser, the organisation of
\* the membership for everyone else); a Submit without attachment leaves the
\* cases table as it was.
C33_SubmitCreatesPendingCaseInOwnOrg ==
    [][ /\ (/\ nreq' = nreq + 1
            /\ resp'.op \in {"submit", "intake"}
            /\ resp'.code = "ok")
           => LET c == resp'.case
                  u == resp'.user
              IN /\ ~cases[c].exists /\ cases'[c].exists
                 /\ \A d \in CaseIds \ {c} : cases'[d] = cases[d]
                 /\ cases'[c].status = "pending"
                 /\ cases'[c].decision = NULL
                 /\ cases'[c].protocol = NULL
                 /\ cases'[c].vetted_at = NULL
                 /\ cases'[c].org_id \in Orgs
                 /\ (u \in UserIds \ {SUPERADMIN} => cases'[c].org_id = memberships[u].org_id)
        /\ \A u \in UserIds, i \in Institutions, o \in Orgs \cup {NoOrg}, rad \in Names :
              submit_case(u, i, o, rad, FALSE) => cases' = cases
        /\ \A o \in Orgs, t \in BOOLEAN, i \in Institutions :
              intake_submit(o, t, i, FALSE) => cases' = cases
      ]_vars

C35_ReopenedQueuedAsPending ==
    [][ (listing' # listing /\ listing'.code = "ok")
        => LET u == listing'.user
               s == session'[u]
               mine == {c \in CaseIds :
                          /\ cases[c].exists
                          /\ cases[c].org_id = memberships[u].org_id
                          /\ (listing'.op = "radiologist"
                                => cases[c].radiologist = s.radiologist_name)}
               reopened == {c \in mine : cases[c].status = "reopened"}
           IN /\ listing'.tab = "pending" => reopened \subseteq listing'.rows
              /\ listing'.op = "admin"
                 => /\ listing'.pending_count
                         = Cardinality({c \in mine : cases[c].status \in {"pending", "reopened"}})
                    /\ listing'.total_count = Cardinality(mine)
      ]_vars

\* the stored reference names a referral that is in the storage backend
Resolves(a) ==
    \/ a.stored_filepath = "local" /\ a.file
    \/ a.stored_filepath = "blob" /\ a.blob

\* C36: a view of an existing case answers with its metadata and all of its
\* events whether or not the reference resolves, and no view or download
\* takes the reference away while the referral is still in its backend.
C36_ReadsClearOnlyAbsentAttachment ==
    [][ /\ (attach.exists /\ attach'.out # attach.out /\ attach'.out.op = "view")
           => /\ attach'.out.code = "ok" /\ attach'.out.metadata
              /\ attach'.out.events = attach.events
        /\ (attach.stored_filepath # NULL /\ attach'.stored_filepath = NULL)
           => ~Resolves(attach)
      ]_vars

\* C37: in every reachable state a request that has left its handler, served,
\* refused or failed, holds no connection.
C37_NoConnectionHeldAfterExit ==
    \A p \in Procs : db[p].pc = "done" => db[p].held = 0

\* C38: once the migration has run to its end, no row of cases, institutions
\* or protocols is left with org_id NULL, and a run that reports success
\* (run() returned True, or the report says "success") has left none.
C38_MigrationScopesEveryRow ==
    (mig.pc = "done" /\ (mig.returned \/ mig.status = "success"))
    => \A t \in Scoped : mig.tables[t].exists => mig.tables[t].nulls = 0

\* C39: a request that carries a session older than the user's last login is
\* rejected and its cookie cleared, and a request that carries the session of
\* the last login within the session timeout is accepted.
C39_OnlyNewestSessionAccepted ==
    [][ \A session_id \in 1 .. MaxLogins :
          SessRequest(session_id, FALSE)
          => IF session_id < sess.issued
             THEN ~sess'.out.accepted /\ session_id \in sess'.cleared
             ELSE sess'.out.accepted
      ]_vars

\* C40: no token ever leads to more than one update of the password, and a
\* submission that arrives when its token is marked used or has expired is
\* refused.
C40_TokenChangesPasswordOnce ==
    [][ /\ \A t \in Tokens : resets'.tokens[t].changes <= 1
        /\ \A p \in Procs, t \in Tokens :
              (ResetSelect(p, t) /\ (resets.tokens[t].used_at \/ resets.tokens[t].expired))
              => resets'.reqs[p].exit \in {"400", "500"}
      ]_vars

====
